---- MODULE Spec2Model ----
(***************************************************************************)
(* Model of the distRcpp distance engine (dist.cpp): the four batch        *)
(* evaluators dist_1to1, dist_1tom, dist_df, dist_mtom and the three       *)
(* aggregators dist_weighted_mean, popdist_weighted_mean, dist_min.        *)
(*                                                                         *)
(* Doubles are modelled as extended rationals <<num, den>> with den >= 0:  *)
(* <<n,d>> with d > 0 is the finite value n/d in lowest terms, <<1,0>> is  *)
(* +Inf, <<-1,0>> is -Inf and <<0,0>> is NaN.  Rounding is not modelled.   *)
(* Coordinates are integer degrees.                                        *)
(***************************************************************************)
EXTENDS Integers, Sequences, FiniteSets, TLC

(* ------------------------------ bounds -------------------------------- *)
\* longest coordinate vector handed to dist_1tom, dist_df, dist_mtom
MaxLen == 2
\* most origin rows (x_df) of an aggregator call
MaxN == 2
\* most reference rows (y_df) of an aggregator call
MaxK == 2

(* --------------------------- input domains ---------------------------- *)
Lons == {0, 180}
Lats == {0, 90}
\* what a read past the end of a vector may return
Garbage == {0, 90}
FunNames == {"Haversine", "Vincenty", "Bogus"}
Transforms == {"level", "log"}
Decays == {0, 2}
\* origin coordinates, and the reference rows of an aggregator call
OrigLons == {0}
OrigLats == {0, 90}
RefPoints == {<<0, 0>>, <<180, 0>>}
Measures == {0, 3}
Pops == {0, 2}

(* ------------------------ extended rationals -------------------------- *)
NaN == <<0, 0>>
PosInf == <<1, 0>>
NegInf == <<-1, 0>>
Zero == <<0, 1>>
One == <<1, 1>>

Abs(n) == IF n < 0 THEN -n ELSE n
Sign(n) == IF n < 0 THEN -1 ELSE IF n > 0 THEN 1 ELSE 0

RECURSIVE GCD(_, _)
GCD(a, b) == IF b = 0 THEN a ELSE GCD(b, a % b)

Norm(n, d) ==
  IF d = 0 THEN <<Sign(n), 0>>
  ELSE LET g == GCD(Abs(n), Abs(d))
           s == Sign(d)
       IN  <<(s * n) \div g, (s * d) \div g>>

Num(v) == Norm(v, 1)
IsNaN(a) == a = NaN
IsInf(a) == a[2] = 0 /\ a[1] # 0
IsFinite(a) == a[2] > 0

Mul(a, b) == Norm(a[1] * b[1], a[2] * b[2])
Recip(a) == Norm(a[2], a[1])
Div(a, b) == Mul(a, Recip(b))
Add(a, b) ==
  IF IsNaN(a) \/ IsNaN(b) THEN NaN
  ELSE IF IsInf(a) /\ IsInf(b) THEN (IF a = b THEN a ELSE NaN)
  ELSE IF IsInf(a) THEN a
  ELSE IF IsInf(b) THEN b
  ELSE Norm(a[1] * b[2] + b[1] * a[2], a[2] * b[2])

\* a < b as C++ compares doubles: false whenever an operand is NaN
Lt(a, b) ==
  IF IsNaN(a) \/ IsNaN(b) THEN FALSE
  ELSE IF IsInf(a) \/ IsInf(b) THEN
         (a = NegInf /\ b # NegInf) \/ (b = PosInf /\ a # PosInf)
  ELSE a[1] * b[2] < b[1] * a[2]

\* std::pow(a, e) for a whole exponent e >= 0; pow(x, 0) is 1 for every x
RECURSIVE Pow(_, _)
Pow(a, e) == IF e = 0 THEN One ELSE Mul(a, Pow(a, e - 1))

\* floor(log2(q)) for a whole q >= 1
RECURSIVE Log2(_)
Log2(q) == IF q < 2 THEN 0 ELSE 1 + Log2(q \div 2)

\* natural logarithm, to the precision of the model: ln(2^e) = e * 7/10
Ln(a) ==
  IF IsNaN(a) \/ a = NegInf THEN NaN
  ELSE IF a = PosInf THEN PosInf
  ELSE IF a[1] < 0 THEN NaN
  ELSE IF a[1] = 0 THEN NegInf
  ELSE IF a[1] >= a[2] THEN Norm(7 * Log2(a[1] \div a[2]), 10)
  ELSE Norm(-7 * Log2(a[2] \div a[1]), 10)

(* -------------------------- distance metrics -------------------------- *)
\* length of a quarter great circle in the model's unit of distance
QuarterCircle == 2

\* the point of the sphere a coordinate on the 90-degree grid names
Axis(lon, lat) ==
  IF lat = 90 THEN "N"
  ELSE IF lon = 0 THEN "E0"
  ELSE IF lon = 90 THEN "E90"
  ELSE "E180"

\* central angle between two grid points, in quarter circles
Quarters(xlon, xlat, ylon, ylat) ==
  LET p == Axis(xlon, xlat)
      q == Axis(ylon, ylat)
  IN  IF p = q THEN 0
      ELSE IF {p, q} = {"E0", "E180"} THEN 2
      ELSE 1

dist_haversine(xlon, xlat, ylon, ylat) ==
  Num(QuarterCircle * Quarters(xlon, xlat, ylon, ylat))

\* the ellipsoidal iteration does not converge for antipodal points
dist_vincenty(xlon, xlat, ylon, ylat) ==
  IF Quarters(xlon, xlat, ylon, ylat) = 2 THEN NaN
  ELSE Num(QuarterCircle * Quarters(xlon, xlat, ylon, ylat))

(* --------------------------- metric selector -------------------------- *)
NoFunc == "NULL"

choose_func(funname) ==
  IF funname = "Haversine" THEN "Haversine"
  ELSE IF funname = "Vincenty" THEN "Vincenty"
  ELSE NoFunc

\* a call through the resolved function pointer
fun(f, xlon, xlat, ylon, ylat) ==
  IF f = "Haversine" THEN dist_haversine(xlon, xlat, ylon, ylat)
  ELSE dist_vincenty(xlon, xlat, ylon, ylat)

(* ------------------------ inverse-weight transform -------------------- *)
inverse_value(d, exp, transform) ==
  IF transform = "log"
  THEN [j \in 1..Len(d) |-> Recip(Pow(Ln(d[j]), exp))]
  ELSE [j \in 1..Len(d) |-> Recip(Pow(d[j], exp))]

(* ------------------------------- state -------------------------------- *)
VARIABLES
  op,         \* the exported function that was called
  funname,    \* funname / dist_function
  xlon, xlat, \* origin coordinates (length 1 for a scalar argument)
  ylon, ylat, \* reference coordinates
  id,         \* x_df[x_id]
  meas,       \* y_df[measure_col]
  popw,       \* y_df[pop_col]
  transform,  \* dist_transform
  decay,      \* decay
  pc,         \* "run" while the call is executing, "done" after it left
  i,          \* row index of the aggregator loop (0-based, as in the code)
  out,        \* NumericVector out(n)
  interrupt,  \* the host's pending-interrupt flag
  outcome,    \* how the call ended
  result,     \* the value handed back to the host
  ncalls,     \* distances computed so far (calls through the pointer)
  nresolve,   \* calls of choose_func so far
  oob,        \* TRUE once an element past the end of a vector was read
  reqAt       \* row index at which the host requested cancellation, or -1

vars == <<op, funname, xlon, xlat, ylon, ylat, id, meas, popw, transform,
          decay, pc, i, out, interrupt, outcome, result, ncalls, nresolve,
          oob, reqAt>>

inputs == <<op, funname, xlon, xlat, ylon, ylat, id, meas, popw, transform,
            decay>>

Evaluators == {"dist_1to1", "dist_1tom", "dist_df", "dist_mtom"}
Aggregators == {"dist_weighted_mean", "popdist_weighted_mean", "dist_min"}

NoResult == [dim |-> <<>>, id |-> <<>>, val |-> <<>>]

\* the vectors of length l over S that repeat with period two (for l <= 2,
\* every vector over S)
Periodic(S, l) ==
  {[j \in 1..l |-> IF j % 2 = 1 THEN a ELSE b] : a \in S, b \in S}

SeqsUpTo(S, m) == UNION {Periodic(S, l) : l \in 0..m}

\* v[i] (1-based), or the garbage g holds for that read when i is past the end
At(name, v, j, g) == IF j <= Len(v) THEN v[j] ELSE g[<<name, j>>]

\* the reads of v[1..m] that fall past the end of v
Past(name, v, m) == {<<name, j>> : j \in (Len(v) + 1)..m}

(* --------------------------- batch evaluators ------------------------- *)
Failed(status) ==
  [status |-> status, dim |-> <<>>, val |-> <<>>, calls |-> 0, past |-> {}]

dist_mtom_past(x_lon, x_lat, y_lon, y_lat) ==
  IF Len(x_lon) = 0 \/ Len(y_lon) = 0 THEN {}
  ELSE Past("xlat", x_lat, Len(x_lon)) \cup Past("ylat", y_lat, Len(y_lon))

\* dist_mtom with the inner loop started at j = 1: column 0 keeps its 0
dist_mtom_skipfirst(x_lon, x_lat, y_lon, y_lat, name, g) ==
  LET f == choose_func(name)
      n == Len(x_lon)
      k == Len(y_lon)
  IN  IF f = NoFunc THEN Failed("InvalidMetricName")
      ELSE [status |-> "ok",
            dim |-> <<n, k>>,
            val |-> [r \in 1..n |-> [c \in 1..k |->
                       IF c = 1 THEN Zero
                       ELSE fun(f, x_lon[r], At("xlat", x_lat, r, g),
                                   y_lon[c], At("ylat", y_lat, c, g))]],
            calls |-> n * k,
            past |-> dist_mtom_past(x_lon, x_lat, y_lon, y_lat)]

dist_mtom(x_lon, x_lat, y_lon, y_lat, name, g) ==
  LET f == choose_func(name)
      n == Len(x_lon)
      k == Len(y_lon)
  IN  IF f = NoFunc THEN Failed("InvalidMetricName")
      ELSE [status |-> "ok",
            dim |-> <<n, k>>,
            val |-> [r \in 1..n |-> [c \in 1..k |->
                       fun(f, x_lon[r], At("xlat", x_lat, r, g),
                              y_lon[c], At("ylat", y_lat, c, g))]],
            calls |-> n * k,
            past |-> dist_mtom_past(x_lon, x_lat, y_lon, y_lat)]

dist_df_past(x_lon, x_lat, y_lon, y_lat) ==
  Past("xlon", x_lon, Len(y_lon)) \cup Past("xlat", x_lat, Len(y_lon))
    \cup Past("ylat", y_lat, Len(y_lon))

dist_df(x_lon, x_lat, y_lon, y_lat, name, g) ==
  LET f == choose_func(name)
      k == Len(y_lon)
  IN  IF f = NoFunc THEN Failed("InvalidMetricName")
      ELSE [status |-> "ok",
            dim |-> <<k>>,
            val |-> [r \in 1..k |->
                       fun(f, At("xlon", x_lon, r, g), At("xlat", x_lat, r, g),
                              y_lon[r], At("ylat", y_lat, r, g))],
            calls |-> k,
            past |-> dist_df_past(x_lon, x_lat, y_lon, y_lat)]

dist_1tom_past(y_lon, y_lat) == Past("ylat", y_lat, Len(y_lon))

\* dist_1tom reading ylat[0] for every reference point
dist_1tom_fixedlat(x_lon, x_lat, y_lon, y_lat, name, g) ==
  LET f == choose_func(name)
      k == Len(y_lon)
  IN  IF f = NoFunc THEN Failed("InvalidMetricName")
      ELSE [status |-> "ok",
            dim |-> <<k>>,
            val |-> [r \in 1..k |->
                       fun(f, x_lon, x_lat, y_lon[r], At("ylat", y_lat, 1, g))],
            calls |-> k,
            past |-> dist_1tom_past(y_lon, y_lat)]

dist_1tom(x_lon, x_lat, y_lon, y_lat, name, g) ==
  LET f == choose_func(name)
      k == Len(y_lon)
  IN  IF f = NoFunc THEN Failed("InvalidMetricName")
      ELSE [status |-> "ok",
            dim |-> <<k>>,
            val |-> [r \in 1..k |->
                       fun(f, x_lon, x_lat, y_lon[r], At("ylat", y_lat, r, g))],
            calls |-> k,
            past |-> dist_1tom_past(y_lon, y_lat)]

dist_1to1(x_lon, x_lat, y_lon, y_lat, name) ==
  LET f == choose_func(name)
  IN  IF f = NoFunc THEN Failed("InvalidMetricName")
      ELSE [status |-> "ok",
            dim |-> <<>>,
            val |-> <<fun(f, x_lon, x_lat, y_lon, y_lat)>>,
            calls |-> 1,
            past |-> {}]

(* ----------------------------- aggregators ---------------------------- *)
\* double s = 0; for (int j = 0; j < k; j++) s += v[j];
RECURSIVE SumTo(_, _)
SumTo(v, k) == IF k = 0 THEN Zero ELSE Add(SumTo(v, k - 1), v[k])

\* Rcpp sugar min(): +Inf for an empty vector, the first NaN met if any
RECURSIVE MinFrom(_, _, _)
MinFrom(d, j, m) ==
  IF j > Len(d) THEN m
  ELSE IF IsNaN(d[j]) THEN d[j]
  ELSE MinFrom(d, j + 1, IF Lt(d[j], m) THEN d[j] ELSE m)

\* min() that never looks past the first element
min_first(d) == IF Len(d) = 0 THEN PosInf ELSE d[1]

min(d) ==
  IF Len(d) = 0 THEN PosInf
  ELSE IF IsNaN(d[1]) THEN d[1]
  ELSE MinFrom(d, 2, d[1])

\* w * meas, idw * popw: elementwise product of two vectors
Times(a, b) == [j \in 1..Len(a) |-> Mul(a[j], b[j])]

\* the reduction without the division by the weight sum
weighted_unnormalised(w, m, k) ==
  SumTo([j \in 1..Len(w) |-> Mul(w[j], m[j])], k)

\* rows 298-313 / 213-228: the ratio reduction of one origin row
weighted(w, m, k) ==
  LET w_sum == SumTo(w, k)
      tmp == [j \in 1..Len(w) |-> Div(Mul(w[j], m[j]), w_sum)]
  IN  SumTo(tmp, k)

\* interrupt periods of the three loops
CheckEvery_dwm == 100
CheckEvery_pop == 1000
CheckEvery_min == 100

NoGarbage == [p \in {} |-> 0]

\* body of the loop of dist_weighted_mean after the interrupt check
dist_weighted_mean_row(x_lon, x_lat, y_lon, y_lat, m, name, tr, dc) ==
  LET dist == dist_1tom(x_lon, x_lat, y_lon, y_lat, name, NoGarbage)
  IN  IF dist.status # "ok" THEN dist
      ELSE LET w == inverse_value(dist.val, dc, tr)
           IN  [dist EXCEPT !.val = weighted(w, m, Len(y_lon))]

\* body of the loop of popdist_weighted_mean after the interrupt check
popdist_weighted_mean_row(x_lon, x_lat, y_lon, y_lat, m, p, name, tr, dc) ==
  LET dist == dist_1tom(x_lon, x_lat, y_lon, y_lat, name, NoGarbage)
  IN  IF dist.status # "ok" THEN dist
      ELSE LET idw == inverse_value(dist.val, dc, tr)
               w == Times(idw, p)
           IN  [dist EXCEPT !.val = weighted(w, m, Len(y_lon))]

\* body of the loop of dist_min after the interrupt check
dist_min_row(x_lon, x_lat, y_lon, y_lat, name) ==
  LET dist == dist_1tom(x_lon, x_lat, y_lon, y_lat, name, NoGarbage)
  IN  IF dist.status # "ok" THEN dist
      ELSE [dist EXCEPT !.val = min(dist.val)]

(* -------------------------------- Init -------------------------------- *)
Names == <<"a", "b", "c", "d">>

\* the identifier column: unique names, not in sorted order
IdVectors(n) == {[r \in 1..n |-> Names[n + 1 - r]]}

InitControl ==
  /\ pc = "run"
  /\ i = 0
  /\ interrupt = FALSE
  /\ outcome = "none"
  /\ result = NoResult
  /\ ncalls = 0
  /\ nresolve = 0
  /\ oob = FALSE
  /\ reqAt = -1

InitEvaluator ==
  /\ op \in Evaluators
  /\ funname \in FunNames
  /\ xlon \in (IF op \in {"dist_1to1", "dist_1tom"}
               THEN [1..1 -> OrigLons] ELSE SeqsUpTo(OrigLons, MaxLen))
  /\ xlat \in (IF op \in {"dist_1to1", "dist_1tom"}
               THEN [1..1 -> OrigLats] ELSE SeqsUpTo(OrigLats, MaxLen))
  /\ ylon \in (IF op = "dist_1to1"
               THEN [1..1 -> Lons] ELSE SeqsUpTo(Lons, MaxLen))
  /\ ylat \in (IF op = "dist_1to1"
               THEN [1..1 -> Lats] ELSE SeqsUpTo(Lats, MaxLen))
  /\ id = <<>>
  /\ meas = <<>>
  /\ popw = <<>>
  /\ transform = "level"
  /\ decay = 0
  /\ out = <<>>
  /\ InitControl

InitAggregator ==
  /\ op \in Aggregators
  /\ funname \in FunNames
  /\ \E n \in 0..MaxN, k \in 0..MaxK :
       /\ xlon \in Periodic(OrigLons, n)
       /\ xlat \in Periodic(OrigLats, n)
       /\ id \in IdVectors(n)
       /\ \E y \in Periodic(RefPoints, k) :
            /\ ylon = [j \in 1..k |-> y[j][1]]
            /\ ylat = [j \in 1..k |-> y[j][2]]
       /\ meas \in (IF op = "dist_min" THEN {<<>>} ELSE Periodic({Num(v) : v \in Measures}, k))
       /\ popw \in (IF op = "popdist_weighted_mean"
                    THEN Periodic({Num(v) : v \in Pops}, k) ELSE {<<>>})
       /\ out = [r \in 1..n |-> Zero]
  /\ transform \in (IF op = "dist_min" THEN {"level"} ELSE Transforms)
  /\ decay \in (IF op = "dist_min" THEN {0} ELSE Decays)
  /\ InitControl

Init == InitEvaluator \/ InitAggregator

(* ------------------------------ actions ------------------------------- *)
\* an evaluator returns (or throws) with outcome r
Finish(r) ==
  /\ pc' = "done"
  /\ outcome' = r.status
  /\ result' = (IF r.status = "ok"
                THEN [dim |-> r.dim, id |-> <<>>, val |-> r.val]
                ELSE NoResult)
  /\ ncalls' = ncalls + r.calls
  /\ nresolve' = nresolve + 1
  /\ oob' = (r.past # {})
  /\ UNCHANGED <<inputs, i, out, interrupt, reqAt>>

\* a read past the end of a vector may also end the process
Crash ==
  /\ pc' = "done"
  /\ outcome' = "crash"
  /\ nresolve' = nresolve + 1
  /\ oob' = TRUE
  /\ UNCHANGED <<inputs, i, out, interrupt, reqAt, result, ncalls>>

Call_dist_1to1 ==
  /\ pc = "run"
  /\ op = "dist_1to1"
  /\ Finish(dist_1to1(xlon[1], xlat[1], ylon[1], ylat[1], funname))

Call_dist_1tom ==
  /\ pc = "run"
  /\ op = "dist_1tom"
  /\ \E g \in [dist_1tom_past(ylon, ylat) -> Garbage] :
       LET r == dist_1tom(xlon[1], xlat[1], ylon, ylat, funname, g)
       IN  Finish(r) \/ (r.past # {} /\ Crash)

Call_dist_df ==
  /\ pc = "run"
  /\ op = "dist_df"
  /\ \E g \in [dist_df_past(xlon, xlat, ylon, ylat) -> Garbage] :
       LET r == dist_df(xlon, xlat, ylon, ylat, funname, g)
       IN  Finish(r) \/ (r.past # {} /\ Crash)

Call_dist_mtom ==
  /\ pc = "run"
  /\ op = "dist_mtom"
  /\ \E g \in [dist_mtom_past(xlon, xlat, ylon, ylat) -> Garbage] :
       LET r == dist_mtom(xlon, xlat, ylon, ylat, funname, g)
       IN  Finish(r) \/ (r.past # {} /\ Crash)

\* Rcpp::checkUserInterrupt() found the flag set: the call is abandoned
Interrupted ==
  /\ pc' = "done"
  /\ outcome' = "Interrupted"
  /\ UNCHANGED <<inputs, i, out, interrupt, result, ncalls, nresolve, oob,
                 reqAt>>

\* DataFrame::create(_["id"] = id, _[col] = out)
Table(ids, vals, col) ==
  [dim |-> <<Len(ids), 2>>, id |-> ids, val |-> vals, col |-> col]

\* the loop pass storing its value from the far end of out
Row_reversed(every, r, col) ==
  IF i % every = 0 /\ interrupt THEN Interrupted
  ELSE /\ nresolve' = nresolve + 1
       /\ ncalls' = ncalls + r.calls
       /\ IF r.status # "ok"
          THEN /\ pc' = "done"
               /\ outcome' = r.status
               /\ UNCHANGED <<i, out, result>>
          ELSE /\ out' = [out EXCEPT ![Len(out) - i] = r.val]
               /\ i' = i + 1
               /\ IF i + 1 < Len(xlon)
                  THEN UNCHANGED <<pc, outcome, result>>
                  ELSE /\ pc' = "done"
                       /\ outcome' = "ok"
                       /\ result' = Table(id, out', col)
       /\ UNCHANGED <<inputs, interrupt, oob, reqAt>>

\* the loop pass checking for an interrupt one row late
Row_latecheck(every, r, col) ==
  IF i % every = 1 /\ interrupt THEN Interrupted
  ELSE /\ nresolve' = nresolve + 1
       /\ ncalls' = ncalls + r.calls
       /\ IF r.status # "ok"
          THEN /\ pc' = "done"
               /\ outcome' = r.status
               /\ UNCHANGED <<i, out, result>>
          ELSE /\ out' = [out EXCEPT ![i + 1] = r.val]
               /\ i' = i + 1
               /\ IF i + 1 < Len(xlon)
                  THEN UNCHANGED <<pc, outcome, result>>
                  ELSE /\ pc' = "done"
                       /\ outcome' = "ok"
                       /\ result' = Table(id, out', col)
       /\ UNCHANGED <<inputs, interrupt, oob, reqAt>>

\* one pass of an aggregator loop whose body evaluates to r; the pass for the
\* last row leaves the loop and returns the table
Row(every, r, col) ==
  IF i % every = 0 /\ interrupt THEN Interrupted
  ELSE /\ nresolve' = nresolve + 1
       /\ ncalls' = ncalls + r.calls
       /\ IF r.status # "ok"
          THEN /\ pc' = "done"
               /\ outcome' = r.status
               /\ UNCHANGED <<i, out, result>>
          ELSE /\ out' = [out EXCEPT ![i + 1] = r.val]
               /\ i' = i + 1
               /\ IF i + 1 < Len(xlon)
                  THEN UNCHANGED <<pc, outcome, result>>
                  ELSE /\ pc' = "done"
                       /\ outcome' = "ok"
                       /\ result' = Table(id, out', col)
       /\ UNCHANGED <<inputs, interrupt, oob, reqAt>>

\* the loop is not entered: the table is returned at once
Return(col) ==
  /\ pc' = "done"
  /\ outcome' = "ok"
  /\ result' = Table(id, out, col)
  /\ UNCHANGED <<inputs, i, out, interrupt, ncalls, nresolve, oob, reqAt>>

Call_dist_weighted_mean ==
  /\ pc = "run"
  /\ op = "dist_weighted_mean"
  /\ IF i < Len(xlon)
     THEN Row(CheckEvery_dwm,
              dist_weighted_mean_row(xlon[i + 1], xlat[i + 1], ylon, ylat,
                                     meas, funname, transform, decay),
              "wmeasure")
     ELSE Return("wmeasure")

Call_popdist_weighted_mean ==
  /\ pc = "run"
  /\ op = "popdist_weighted_mean"
  /\ IF i < Len(xlon)
     THEN Row(CheckEvery_pop,
              popdist_weighted_mean_row(xlon[i + 1], xlat[i + 1], ylon, ylat,
                                        meas, popw, funname, transform, decay),
              "wmeasure")
     ELSE Return("wmeasure")

Call_dist_min ==
  /\ pc = "run"
  /\ op = "dist_min"
  /\ IF i < Len(xlon)
     THEN Row(CheckEvery_min,
              dist_min_row(xlon[i + 1], xlat[i + 1], ylon, ylat, funname),
              "mindist")
     ELSE Return("mindist")

\* the host (a signal handler) raises the pending-interrupt flag
HostInterrupt ==
  /\ pc = "run"
  /\ op \in Aggregators
  /\ ~interrupt
  /\ interrupt' = TRUE
  /\ reqAt' = i
  /\ UNCHANGED <<inputs, pc, i, out, outcome, result, ncalls, nresolve, oob>>

Next ==
  \/ Call_dist_1to1
  \/ Call_dist_1tom
  \/ Call_dist_df
  \/ Call_dist_mtom
  \/ Call_dist_weighted_mean
  \/ Call_popdist_weighted_mean
  \/ Call_dist_min
  \/ HostInterrupt

Spec == Init /\ [][Next]_vars

(* ------------------------------ claims -------------------------------- *)
ValidName == funname \in {"Haversine", "Vincenty"}
Returned == pc = "done" /\ outcome = "ok"

\* dist_1to1 between origin row r and reference row j (1-based)
Pair(r, j) == dist_1to1(xlon[r], xlat[r], ylon[j], ylat[j], funname).val[1]

\* C1: every call with a metric name other than "Haversine" and "Vincenty"
\* ends in an InvalidMetricName error, with no distance computed and no
\* result returned, whatever the sizes of its inputs.
C1_InvalidNameAlwaysFails ==
  (pc = "done" /\ ~ValidName) =>
    (outcome = "InvalidMetricName" /\ ncalls = 0 /\ result = NoResult)

\* C2: dist_df called with sequences of unequal length ends in a
\* LengthMismatch error, returns no vector and reads no element past the end
\* of an input.
C2_LengthMismatchRejected ==
  (pc = "done" /\ op = "dist_df" /\ ValidName
     /\ Cardinality({Len(xlon), Len(xlat), Len(ylon), Len(ylat)}) > 1) =>
    (outcome = "LengthMismatch" /\ result = NoResult /\ ~oob)

\* C3: with a valid metric name and complete coordinate sequences X (n
\* points) and Y (k points), dist_mtom returns an n-by-k matrix whose cell
\* (r, c) is dist_1to1(X[r], Y[c]) under the same metric name.
C3_MtomMatches1to1 ==
  (pc = "done" /\ op = "dist_mtom" /\ ValidName
     /\ Len(xlat) >= Len(xlon) /\ Len(ylat) >= Len(ylon)) =>
    /\ outcome = "ok"
    /\ result.dim = <<Len(xlon), Len(ylon)>>
    /\ Len(result.val) = Len(xlon)
    /\ \A r \in 1..Len(xlon) :
         /\ Len(result.val[r]) = Len(ylon)
         /\ \A c \in 1..Len(ylon) : result.val[r][c] = Pair(r, c)

C3_Witness ==
  /\ pc = "done" /\ op = "dist_mtom" /\ outcome = "ok"
  /\ Len(xlon) = 2 /\ Len(xlat) = 2 /\ Len(ylon) = 2 /\ Len(ylat) = 2
  /\ result.val[1][1] # result.val[1][2]
  /\ result.val[1][2] # result.val[2][1]
  /\ result.val[1][1] # result.val[2][1]

\* C4: with a valid metric name, one coordinate x and a complete coordinate
\* sequence Y of k points, dist_1tom returns a vector of length exactly k
\* whose entry j is dist_1to1(x, Y[j]) under the same metric name.
C4_1tomMatches1to1 ==
  (pc = "done" /\ op = "dist_1tom" /\ ValidName /\ Len(ylat) >= Len(ylon)) =>
    /\ outcome = "ok"
    /\ result.dim = <<Len(ylon)>>
    /\ Len(result.val) = Len(ylon)
    /\ \A j \in 1..Len(ylon) : result.val[j] = Pair(1, j)

C4_Witness ==
  /\ pc = "done" /\ op = "dist_1tom" /\ outcome = "ok"
  /\ Len(ylon) = 2 /\ Len(ylat) = 2
  /\ result.val[1] # result.val[2]
  /\ ~IsNaN(result.val[2])

\* the weight dist_weighted_mean gives reference row j for origin row r
Weight(r, j) == inverse_value(<<Pair(r, j)>>, decay, transform)[1]

\* C5 as stated: with a single reference row dist_weighted_mean returns that
\* row's measure for every origin row, whatever the distance.
C5_SingleRefReturnsMeasure ==
  (Returned /\ op = "dist_weighted_mean" /\ Len(ylon) = 1) =>
    \A r \in 1..Len(xlon) : result.val[r] = meas[1]

\* C5 amended: with a single reference row dist_weighted_mean returns that
\* row's measure for every origin row whose weight is finite and not zero,
\* and NaN for every origin row whose weight is infinite, zero or NaN.
C5_SingleRefFiniteWeight ==
  (Returned /\ op = "dist_weighted_mean" /\ Len(ylon) = 1) =>
    \A r \in 1..Len(xlon) :
      IF IsFinite(Weight(r, 1)) /\ Weight(r, 1) # Zero
      THEN result.val[r] = meas[1]
      ELSE IsNaN(result.val[r])

C5_Witness ==
  /\ Returned /\ op = "dist_weighted_mean" /\ Len(ylon) = 1 /\ Len(xlon) = 2
  /\ Pair(1, 1) = Zero /\ decay = 2 /\ transform = "level"
  /\ IsNaN(result.val[1])
  /\ result.val[2] = meas[1] /\ meas[1] # Zero

\* the weights of origin row r over all reference rows
Weights(r) ==
  LET idw == inverse_value([j \in 1..Len(ylon) |-> Pair(r, j)],
                           decay, transform)
  IN  IF op = "popdist_weighted_mean" THEN Times(idw, popw) ELSE idw

\* C6: in dist_weighted_mean and popdist_weighted_mean an origin row whose
\* weights sum to zero gets NaN or an infinity as its output, for every
\* reference-table size, the empty table included.
C6_ZeroWeightSumPropagates ==
  (Returned /\ op \in {"dist_weighted_mean", "popdist_weighted_mean"}) =>
    \A r \in 1..Len(xlon) :
      SumTo(Weights(r), Len(ylon)) = Zero =>
        (IsNaN(result.val[r]) \/ IsInf(result.val[r]))

\* the value the loop body of the called aggregator gives origin row r
RowValue(r) ==
  IF op = "dist_weighted_mean"
  THEN dist_weighted_mean_row(xlon[r], xlat[r], ylon, ylat, meas, funname,
                              transform, decay).val
  ELSE IF op = "popdist_weighted_mean"
  THEN popdist_weighted_mean_row(xlon[r], xlat[r], ylon, ylat, meas, popw,
                                 funname, transform, decay).val
  ELSE dist_min_row(xlon[r], xlat[r], ylon, ylat, funname).val

\* C7: an aggregator call that completes returns a two-column table with one
\* row per origin row, in the order of the origin table: row r carries the
\* identifier of origin row r unchanged and the value computed from origin
\* row r's coordinate.
C7_RowOrderAndIds ==
  (Returned /\ op \in Aggregators) =>
    /\ result.dim = <<Len(xlon), 2>>
    /\ result.id = id
    /\ Len(result.val) = Len(xlon)
    /\ \A r \in 1..Len(xlon) : result.val[r] = RowValue(r)

C7_Witness ==
  /\ Returned /\ op \in Aggregators
  /\ Len(xlon) = 2 /\ id = <<"b", "a">>
  /\ RowValue(1) # RowValue(2)
  /\ result.id = <<"b", "a">>
  /\ result.val = <<RowValue(1), RowValue(2)>>

\* the one-to-many distance vector of origin row r
Distances(r) == [j \in 1..Len(ylon) |-> Pair(r, j)]

\* C8: where the distances from origin row r are all non-negative numbers
\* (zero for identical points), dist_min outputs the minimum of the
\* one-to-many distance vector of row r, and so 0 when the coordinate of row
\* r equals the coordinate of some reference row.
C8_MinDistance ==
  (Returned /\ op = "dist_min") =>
    \A r \in 1..Len(xlon) :
      (Len(ylon) >= 1 /\ \A j \in 1..Len(ylon) : ~IsNaN(Distances(r)[j])) =>
        /\ \E j \in 1..Len(ylon) : result.val[r] = Distances(r)[j]
        /\ \A j \in 1..Len(ylon) : ~Lt(Distances(r)[j], result.val[r])
        /\ (\E j \in 1..Len(ylon) :
              xlon[r] = ylon[j] /\ xlat[r] = ylat[j]) => result.val[r] = Zero

C8_Witness ==
  /\ Returned /\ op = "dist_min" /\ Len(xlon) = 2 /\ Len(ylon) = 2
  /\ xlon[1] = ylon[2] /\ xlat[1] = ylat[2]
  /\ Distances(1)[1] # Zero /\ ~IsNaN(Distances(1)[1])
  /\ result.val[1] = Zero
  /\ result.val[2] # Zero /\ ~IsNaN(result.val[2])

\* the interrupt period of the called aggregator
CheckEvery ==
  IF op = "popdist_weighted_mean" THEN CheckEvery_pop
  ELSE IF op = "dist_min" THEN CheckEvery_min
  ELSE CheckEvery_dwm

\* the first row at or after row a at which the loop checks for an interrupt
NextCheck(a) == ((a + CheckEvery - 1) \div CheckEvery) * CheckEvery

C10_RatioOfSums ==
  (Returned /\ op = "dist_weighted_mean") =>
    \A r \in 1..Len(xlon) :
      result.val[r] = Div(SumTo(Times(Weights(r), meas), Len(ylon)),
                          SumTo(Weights(r), Len(ylon)))

\* every reference row carries the same positive finite population
EqualPops ==
  \A j \in 1..Len(popw) :
    popw[j] = popw[1] /\ IsFinite(popw[j]) /\ Lt(Zero, popw[j])

\* C11: for every origin row r popdist_weighted_mean stores
\* sum_j(w[j] * measure[j]) / sum_j(w[j]) with w[j] = idw[j] * population[j];
\* so when all reference rows have the same positive finite population the
\* output is the output of dist_weighted_mean on the same inputs.
C11_PopRatioOfSums ==
  (Returned /\ op = "popdist_weighted_mean") =>
    \A r \in 1..Len(xlon) :
      /\ result.val[r] = Div(SumTo(Times(Weights(r), meas), Len(ylon)),
                             SumTo(Weights(r), Len(ylon)))
      /\ EqualPops =>
           result.val[r] =
             dist_weighted_mean_row(xlon[r], xlat[r], ylon, ylat, meas,
                                    funname, transform, decay).val

\* C12: within one aggregator call the metric name is resolved exactly once
\* and not again for each origin row.
C12_ResolvedOnce ==
  op \in Aggregators =>
    /\ nresolve <= 1
    /\ (Returned /\ Len(xlon) > 0) => nresolve = 1

\* C13: dist_mtom and dist_1tom read no element past the end of the vector
\* it is read from, whatever the lengths of their inputs.
C13_ReadsInBounds ==
  (pc = "done" /\ op \in {"dist_mtom", "dist_1tom"}) => ~oob

====
